---------------------------- MODULE Spec2Model ----------------------------
(***************************************************************************)
(* VAPr: the chunked parallel annotation-collection-and-merge pipeline of  *)
(* annotation_project.py (and the partitioner's twin in vapr_core.py).     *)
(*                                                                         *)
(* Python strings are sequences of one-character strings, Python dicts are *)
(* functions from a set of keys, Python lists are sequences.               *)
(***************************************************************************)
EXTENDS Integers, Sequences, FiniteSets, TLC

VARIABLES
    pc,                       \* position of the caller of _collect_annotations_and_store
    num_lines,                \* lines of the source file
    chunk_size,               \* chunk_size argument (> 0)
    sample_names_list,        \* None (basic mode) or the sample names (detailed mode)
    jobs_params_tuples_list,  \* what _make_jobs_params_tuples_list returned
    pool,                     \* multiprocessing.Pool: "none", "running", "joined", "terminated"
    worker,                   \* worker -> index of the job it runs, 0 when idle
    jobState,                 \* job -> "pending", "fetching", "fetched", "done", "failed", "terminated"
    jobError,                 \* job -> the exception that ended it, "none" otherwise
    depth,                    \* job -> recursion depth of _get_myvariantinfo_annotations_dict
    hgvs_ids_list,            \* job -> identifiers of its chunk
    annovar_variants,         \* job -> local records of its chunk (detailed mode)
    response,                 \* job -> what mv.getvariants returned on the successful attempt
    myvariants_variants,      \* job -> what _get_myvariantinfo_annotations_dict returned
    variant_dicts_to_store,   \* job -> the list passed to store_annotations_to_db
    storeCalled,              \* job -> store_annotations_to_db was called
    stored,                   \* job -> documents the store holds for the job
    results,                  \* finished jobs not yet seen by the caller's loop, oldest first
    progress,                 \* results the caller's loop has consumed (tqdm)
    runs,                     \* job -> times a worker took it from the task queue
    open_handles,             \* job -> file handles it opened that are still open
    hgvs_id,                  \* normalizer: the identifier passed in
    normed,                   \* normalizer: _complete_chromosome(hgvs_id), once computed
    normed_twice,             \* normalizer: _complete_chromosome of that result
    dic,                      \* post-processing: the service record passed in
    cleaned,                  \* post-processing: <<the record after the loop body>>, once run
    len_mapping,              \* run_annovar: len(self.mapping), the input files
    batch_jobs,               \* run_annovar: batch_jobs argument (> 0)
    batch_index,              \* run_annovar: index of the batch in n_job_splits
    lpc,                      \* run_annovar: "idle", "submit", "scan", "sleep", "finished"
    added,                    \* listen: polls that saw a new file
    txts,                     \* listen: txt files found by the walk before the sleep
    out_path,                 \* txt files under the output directory
    created                   \* output files the ANNOVAR processes have written

vars == <<pc, num_lines, chunk_size, sample_names_list, jobs_params_tuples_list,
          pool, worker, jobState, jobError, depth, hgvs_ids_list, annovar_variants,
          response, myvariants_variants, variant_dicts_to_store, storeCalled, stored, results, progress,
          runs, open_handles,
          hgvs_id, normed, normed_twice, dic, cleaned,
          len_mapping, batch_jobs, batch_index, lpc, added, txts, out_path, created>>

pipelineVars == <<pc, num_lines, chunk_size, sample_names_list, jobs_params_tuples_list,
          pool, worker, jobState, jobError, depth, hgvs_ids_list, annovar_variants,
          response, myvariants_variants, variant_dicts_to_store, storeCalled, stored, results, progress,
          runs, open_handles>>

normVars == <<hgvs_id, normed, normed_twice>>

recordVars == <<dic, cleaned>>

listenVars == <<len_mapping, batch_jobs, batch_index, lpc, added, txts, out_path, created>>

\* what the pipeline's steps leave alone
besidePipeline == <<normVars, recordVars, listenVars>>

---------------------------------------------------------------------------
(* Bounds of the model *)

\* lines of the source file in the pipeline runs
MaxLines == 2
\* chunk sizes in the pipeline runs
MaxChunk == 2
\* lines of the source file when only the partitioner runs
MaxPartLines == 12
\* chunk sizes when only the partitioner runs
MaxPartChunk == 5
\* pool workers
NumProcesses == 2
\* frames of _get_myvariantinfo_annotations_dict the interpreter's call stack
\* holds (CPython: sys.getrecursionlimit(), 1000 unless changed)
RecursionLimit == 2
\* length of the identifiers given to the normalizer
MaxIdLen == 5
\* input files of run_annovar
MaxFiles == 4
\* batch_jobs of run_annovar
MaxBatchJobs == 3
\* txt files the output directory holds before run_annovar
MaxStaleFiles == 2

---------------------------------------------------------------------------
(* Python values *)

None == <<"None">>
IndexError == <<"IndexError">>
NotYet == <<"NotYet">>

\* characters of the identifiers given to the normalizer
Alphabet == {"M", "T", ":", "1"}

RECURSIVE StringsUpTo(_)
StringsUpTo(n) ==
    IF n = 0 THEN {<<>>}
    ELSE LET shorter == StringsUpTo(n - 1)
         IN shorter \cup {Append(s, c) : s \in {t \in shorter : Len(t) = n - 1}, c \in Alphabet}

\* sub in s
Contains(s, sub) ==
    \E i \in 1..(Len(s) - Len(sub) + 1) : SubSeq(s, i, i + Len(sub) - 1) = sub

\* s.split(sep) for a one-character sep
RECURSIVE Split(_, _)
Split(s, sep) ==
    IF \A i \in 1..Len(s) : s[i] # sep THEN <<s>>
    ELSE LET i == CHOOSE k \in 1..Len(s) : s[k] = sep /\ \A m \in 1..(k - 1) : s[m] # sep
         IN <<SubSeq(s, 1, i - 1)>> \o Split(SubSeq(s, i + 1, Len(s)), sep)

chrMT == <<"c", "h", "r", "M", "T">>

\* mutant: the chromosome is given the prefix 'chr' instead of being replaced
_complete_chromosome_prefixing(id) ==
    IF Contains(id, <<"M">>)
    THEN LET parts == Split(id, ":")
         IN IF Len(parts) < 2 THEN IndexError
            ELSE LET one == IF ~Contains(parts[1], <<"M", "T">>)
                            THEN <<"c", "h", "r">> \o parts[1]
                            ELSE parts[1]
                 IN one \o <<":">> \o parts[2]
    ELSE id

\* annotation_project.py:192-202; IndexError is what hgvs_id.split(':')[1] raises
_complete_chromosome(id) ==
    IF Contains(id, <<"M">>)
    THEN LET parts == Split(id, ":")
         IN IF Len(parts) < 2 THEN IndexError
            ELSE LET one == IF ~Contains(parts[1], <<"M", "T">>) THEN chrMT ELSE parts[1]
                 IN one \o <<":">> \o parts[2]
    ELSE id

---------------------------------------------------------------------------
(* Dicts *)

\* dic.pop(key, None)
Pop(d, key) == IF key \in DOMAIN d THEN d[key] ELSE None
Without(d, key) == [k \in DOMAIN d \ {key} |-> d[k]]
\* dic[key] = value
With(d, key, value) == [k \in DOMAIN d \cup {key} |-> IF k = key THEN value ELSE d[k]]
\* a.update(b)
Update(a, b) == [k \in DOMAIN a \cup DOMAIN b |-> IF k \in DOMAIN b THEN b[k] ELSE a[k]]

---------------------------------------------------------------------------
(* AnnotationJobParamsIndices, annotation_project.py:124-139 *)

CHUNK_INDEX_INDEX == 0
FILE_PATH_INDEX == 1
CHUNK_SIZE_INDEX == 2
DB_NAME_INDEX == 3
COLLECTION_NAME_INDEX == 4
GENOME_BUILD_VERSION_INDEX == 5
VERBOSE_LEVEL_INDEX == 6
SAMPLE_LIST_INDEX == 7

Max(S) == CHOOSE x \in S : \A y \in S : y <= x
Min(S) == CHOOSE x \in S : \A y \in S : x <= y

get_num_possible_indices ==
    Max({CHUNK_INDEX_INDEX, FILE_PATH_INDEX, CHUNK_SIZE_INDEX, DB_NAME_INDEX,
         COLLECTION_NAME_INDEX, GENOME_BUILD_VERSION_INDEX, VERBOSE_LEVEL_INDEX,
         SAMPLE_LIST_INDEX}) + 1

\* job_params_tuple[index], Python's indices starting at 0
Param(job_params_tuple, index) == job_params_tuple[index + 1]

---------------------------------------------------------------------------
(* The partitioner *)

\* the tuple of shared_job_params once its chunk index is set
JobParamsTuple(curr_chunk_index, file_path, chunk, db_name, collection_name, genome_build_version, samples, verbose_level) ==
    [k \in 1..(IF samples # None THEN get_num_possible_indices
                                 ELSE get_num_possible_indices - 1) |->
        CASE k = CHUNK_INDEX_INDEX + 1 -> curr_chunk_index
          [] k = FILE_PATH_INDEX + 1 -> file_path
          [] k = CHUNK_SIZE_INDEX + 1 -> chunk
          [] k = DB_NAME_INDEX + 1 -> db_name
          [] k = COLLECTION_NAME_INDEX + 1 -> collection_name
          [] k = GENOME_BUILD_VERSION_INDEX + 1 -> genome_build_version
          [] k = VERBOSE_LEVEL_INDEX + 1 -> verbose_level
          [] k = SAMPLE_LIST_INDEX + 1 -> samples]

\* mutant: num_steps lacks its + 1
_make_jobs_params_tuples_list_floor(file_path, file_lines, chunk, db_name, collection_name, genome_build_version, samples, verbose_level) ==
    LET num_steps == file_lines \div chunk
    IN [step \in 1..num_steps |->
           JobParamsTuple(step - 1, file_path, chunk, db_name, collection_name,
                          genome_build_version, samples, verbose_level)]

\* annotation_project.py:32-58 and vapr_core.py:150-175; file_lines is what
\* _get_num_lines_in_file(file_path) returned
_make_jobs_params_tuples_list(file_path, file_lines, chunk, db_name, collection_name, genome_build_version, samples, verbose_level) ==
    LET num_steps == (file_lines \div chunk) + 1
    IN [step \in 1..num_steps |->
           JobParamsTuple(step - 1, file_path, chunk, db_name, collection_name,
                          genome_build_version, samples, verbose_level)]

---------------------------------------------------------------------------
(* The source file and its readers *)

\* the identifier myvariant.format_hgvs builds from the record on line `line`
\* (lines count from 0): every other line is on the mitochondrial chromosome
format_hgvs(line) == <<IF line % 2 = 0 THEN "M" ELSE "1", ":", ToString(line)>>

\* mutant: the slice also yields the line at stop
islice_through_stop(file_lines, start, stop) ==
    [k \in 1..Max({0, Min({stop + 1, file_lines}) - start}) |-> start + k - 1]

\* itertools.islice(reader, start, stop): the line numbers it yields from a file
\* of file_lines lines
islice(file_lines, start, stop) ==
    [k \in 1..Max({0, Min({stop, file_lines}) - start}) |-> start + k - 1]

\* annotation_project.py:180-189
_get_hgvs_ids_from_vcf(file_lines, chunk_index, chunk) ==
    LET records == islice(file_lines, chunk_index * chunk, (chunk_index + 1) * chunk)
    IN [k \in 1..Len(records) |-> _complete_chromosome(format_hgvs(records[k]))]

\* AnnovarTxtParser.read_chunk_of_annotations_to_dicts_list: one local record
\* per line of the chunk, in line order, and the parallel list of identifiers
read_chunk_of_annotations_to_dicts_list(file_lines, samples, chunk_index, chunk) ==
    LET ids == _get_hgvs_ids_from_vcf(file_lines, chunk_index, chunk)
    IN <<[k \in 1..Len(ids) |->
            [hgvs_id |-> ids[k], samples |-> samples, cadd |-> <<"l", "o", "c">>]],
         ids>>

---------------------------------------------------------------------------
(* The remote annotation client *)

\* the record MyVariant.info returns for the identifier id
ServiceRecord(id) == [_id |-> id, query |-> id, cadd |-> <<"r", "e", "m">>]

\* an identifier of no line of the file
StrayId == <<"X", ":", "9">>

\* what mv.getvariants may return for ids: one record per identifier in order,
\* or, for a list that is not empty, a list that lost its last record, gained
\* one, or answers one position with another variant
ServiceResponses(ids) ==
    LET honest == [k \in 1..Len(ids) |-> ServiceRecord(ids[k])]
    IN IF Len(ids) = 0 THEN {honest}
       ELSE {honest, SubSeq(honest, 1, Len(ids) - 1), Append(honest, ServiceRecord(StrayId))}
            \cup {[honest EXCEPT ![p] = ServiceRecord(StrayId)] : p \in 1..Len(ids)}

\* mutant: the two writes of hgvs_id in the other order, so that '_id' wins
_remove_id_key_one_id_wins(record) ==
    LET first == With(Without(record, "query"), "hgvs_id", Pop(record, "query"))
    IN With(Without(first, "_id"), "hgvs_id", Pop(first, "_id"))

\* annotation_project.py:252-253, one dic of the loop
_remove_id_key_one(record) ==
    LET first == With(Without(record, "_id"), "hgvs_id", Pop(record, "_id"))
    IN With(Without(first, "query"), "hgvs_id", Pop(first, "query"))

\* annotation_project.py:248-254
_remove_id_key(variant_data) ==
    [k \in 1..Len(variant_data) |-> _remove_id_key_one(variant_data[k])]

\* annotation_project.py:242-245: the frames of _get_myvariantinfo_annotations_dict
\* return one after the other, each passing what it got through _remove_id_key
RECURSIVE ReturnThroughFrames(_, _)
ReturnThroughFrames(variant_data, frames) ==
    IF frames = 0 THEN variant_data
    ELSE ReturnThroughFrames(_remove_id_key(variant_data), frames - 1)

---------------------------------------------------------------------------
(* The merge *)

\* mutant: the update goes the other way, so that the local value wins
_merge_annovar_and_myvariant_dicts_local_wins(myvariant_dict, annovar_dict) ==
    IF myvariant_dict["hgvs_id"] # annovar_dict["hgvs_id"]
    THEN [error |-> "ValueError", dict |-> None]
    ELSE [error |-> "none", dict |-> Update(myvariant_dict, annovar_dict)]

\* mutant: the identifiers are not compared
_merge_annovar_and_myvariant_dicts_unchecked(myvariant_dict, annovar_dict) ==
    [error |-> "none", dict |-> Update(annovar_dict, myvariant_dict)]

\* annotation_project.py:257-266
_merge_annovar_and_myvariant_dicts(myvariant_dict, annovar_dict) ==
    IF myvariant_dict["hgvs_id"] # annovar_dict["hgvs_id"]
    THEN [error |-> "ValueError", dict |-> None]
    ELSE [error |-> "none", dict |-> Update(annovar_dict, myvariant_dict)]

\* annotation_project.py:172-175: the loop from index i (counted from 1) on
RECURSIVE MergeLoop(_, _, _, _, _)
MergeLoop(ids, myvariants, annovars, i, acc) ==
    IF i > Len(ids) THEN [error |-> "none", dicts |-> acc]
    ELSE IF i > Len(myvariants) \/ i > Len(annovars)
    THEN [error |-> "IndexError", dicts |-> acc]
    ELSE LET merged == _merge_annovar_and_myvariant_dicts(myvariants[i], annovars[i])
         IN IF merged.error # "none"
            THEN [error |-> merged.error, dicts |-> acc]
            ELSE MergeLoop(ids, myvariants, annovars, i + 1, Append(acc, merged.dict))

\* mutant: the worker never takes the merge path
merge_variants_never(job_params_tuple) == FALSE

\* annotation_project.py:157-158
merge_variants(job_params_tuple) == Len(job_params_tuple) > SAMPLE_LIST_INDEX

\* annotation_project.py:170-175: variant_dicts_to_store, or the exception
CollectChunk(job_params_tuple, ids, myvariants, annovars) ==
    IF merge_variants(job_params_tuple)
    THEN MergeLoop(ids, myvariants, annovars, 1, <<>>)
    ELSE [error |-> "none", dicts |-> myvariants]

---------------------------------------------------------------------------
(* The pipeline: _collect_annotations_and_store and the jobs of its pool *)

Jobs == 1..Len(jobs_params_tuples_list)
Workers == 1..NumProcesses

NoNormalizer ==
    /\ hgvs_id = <<>>
    /\ normed = NotYet
    /\ normed_twice = NotYet

NoAnnovar ==
    /\ len_mapping = 0
    /\ batch_jobs = 1
    /\ batch_index = 0
    /\ lpc = "idle"
    /\ added = 0
    /\ txts = 0
    /\ out_path = 0
    /\ created = 0

NoRecord ==
    /\ dic = [cadd |-> <<"r", "e", "m">>]
    /\ cleaned = <<>>

NoJobsYet ==
    /\ jobs_params_tuples_list = <<>>
    /\ pool = "none"
    /\ worker = [w \in Workers |-> 0]
    /\ jobState = <<>>
    /\ jobError = <<>>
    /\ depth = <<>>
    /\ hgvs_ids_list = <<>>
    /\ annovar_variants = <<>>
    /\ response = <<>>
    /\ myvariants_variants = <<>>
    /\ variant_dicts_to_store = <<>>
    /\ storeCalled = <<>>
    /\ stored = <<>>
    /\ results = <<>>
    /\ progress = 0
    /\ runs = <<>>
    /\ open_handles = <<>>

\* gather_basic_annotations passes sample_names_list=None, gather_detailed_annotations
\* the sample names (annotation_project.py:89-96)
Init ==
    /\ pc = "start"
    /\ num_lines \in 0..MaxLines
    /\ chunk_size \in 1..MaxChunk
    /\ sample_names_list \in {None, <<"s1">>}
    /\ NoJobsYet
    /\ NoNormalizer
    /\ NoRecord
    /\ NoAnnovar

\* annotation_project.py:110-115: the job list is made, the pool created and
\* every job handed to it
MakeJobs ==
    /\ pc = "start"
    /\ LET made == _make_jobs_params_tuples_list("f", num_lines, chunk_size, "db", "coll", "hg19", sample_names_list, 1)
       IN /\ jobs_params_tuples_list' = made
          /\ jobState' = [j \in 1..Len(made) |-> "pending"]
          /\ jobError' = [j \in 1..Len(made) |-> "none"]
          /\ depth' = [j \in 1..Len(made) |-> 0]
          /\ hgvs_ids_list' = [j \in 1..Len(made) |-> <<>>]
          /\ annovar_variants' = [j \in 1..Len(made) |-> <<>>]
          /\ response' = [j \in 1..Len(made) |-> <<>>]
          /\ myvariants_variants' = [j \in 1..Len(made) |-> <<>>]
          /\ variant_dicts_to_store' = [j \in 1..Len(made) |-> <<>>]
          /\ storeCalled' = [j \in 1..Len(made) |-> FALSE]
          /\ stored' = [j \in 1..Len(made) |-> <<>>]
          /\ runs' = [j \in 1..Len(made) |-> 0]
          /\ open_handles' = [j \in 1..Len(made) |-> 0]
    /\ pool' = "running"
    /\ pc' = "iterating"
    /\ UNCHANGED <<num_lines, chunk_size, sample_names_list, worker, results, progress>>
    /\ UNCHANGED besidePipeline

\* mutant: the task queue hands out a job that a worker already runs
get_task_again(states) == Min({k \in DOMAIN states : states[k] \in {"pending", "fetching"}})

\* annotation_project.py:115 (pool.imap_unordered): the task queue hands the
\* jobs out in the order of the list, each to the one worker whose get() takes it
get_task(states) == Min({k \in DOMAIN states : states[k] = "pending"})

\* annotation_project.py:148-165: an idle worker takes the next job of the
\* task queue and reads its chunk. _get_hgvs_ids_from_vcf opens the file and
\* returns without closing it (line 182): the handle stays open until the
\* interpreter collects the reader. The parser of the detailed mode releases
\* its handle before it returns.
StartJob(w) ==
    /\ pool = "running"
    /\ worker[w] = 0
    /\ \E j \in Jobs : jobState[j] = "pending"
    /\ LET j == get_task(jobState)
           job_params_tuple == jobs_params_tuples_list[j]
           chunk_index == Param(job_params_tuple, CHUNK_INDEX_INDEX)
           chunk == Param(job_params_tuple, CHUNK_SIZE_INDEX)
       IN /\ IF merge_variants(job_params_tuple)
             THEN LET parsed == read_chunk_of_annotations_to_dicts_list(num_lines, Param(job_params_tuple, SAMPLE_LIST_INDEX), chunk_index, chunk)
                  IN /\ annovar_variants' = [annovar_variants EXCEPT ![j] = parsed[1]]
                     /\ hgvs_ids_list' = [hgvs_ids_list EXCEPT ![j] = parsed[2]]
                     /\ open_handles' = open_handles
             ELSE /\ annovar_variants' = annovar_variants
                  /\ hgvs_ids_list' = [hgvs_ids_list EXCEPT ![j] = _get_hgvs_ids_from_vcf(num_lines, chunk_index, chunk)]
                  /\ open_handles' = [open_handles EXCEPT ![j] = open_handles[j] + 1]
          /\ jobState' = [jobState EXCEPT ![j] = "fetching"]
          /\ worker' = [worker EXCEPT ![w] = j]
          /\ runs' = [runs EXCEPT ![j] = runs[j] + 1]
    /\ UNCHANGED <<pc, num_lines, chunk_size, sample_names_list, jobs_params_tuples_list, pool, jobError, depth, response, myvariants_variants, variant_dicts_to_store, storeCalled, stored, results, progress>>
    /\ UNCHANGED besidePipeline

\* the interpreter of the job's worker process collects the reader that
\* _get_hgvs_ids_from_vcf left behind, which closes its file: right at the
\* function's return where objects are reference-counted, at some later
\* collection elsewhere
CollectGarbage(j) ==
    /\ pool = "running"
    /\ open_handles[j] > 0
    /\ open_handles' = [open_handles EXCEPT ![j] = 0]
    /\ UNCHANGED <<pc, num_lines, chunk_size, sample_names_list, jobs_params_tuples_list, pool, worker, jobState, jobError, depth, hgvs_ids_list, annovar_variants, response, myvariants_variants, variant_dicts_to_store, storeCalled, stored, results, progress, runs>>
    /\ UNCHANGED besidePipeline

\* the job's exception or return value goes to the pool's result queue and its
\* worker is free again
Finish(j, state, error) ==
    /\ jobState' = [jobState EXCEPT ![j] = state]
    /\ jobError' = [jobError EXCEPT ![j] = error]
    /\ results' = Append(results, j)
    /\ worker' = [w \in Workers |-> IF worker[w] = j THEN 0 ELSE worker[w]]

\* annotation_project.py:239-242: mv.getvariants raised; after the sleep the
\* function calls itself, which the interpreter refuses (RecursionError) once
\* the call stack is full
ServiceFail(j) ==
    /\ pool = "running"
    /\ jobState[j] = "fetching"
    /\ IF depth[j] + 2 <= RecursionLimit
       THEN /\ depth' = [depth EXCEPT ![j] = depth[j] + 1]
            /\ UNCHANGED <<jobState, jobError, results, worker>>
       ELSE /\ Finish(j, "failed", "RecursionError")
            /\ UNCHANGED depth
    /\ UNCHANGED <<pc, num_lines, chunk_size, sample_names_list, jobs_params_tuples_list, pool, hgvs_ids_list, annovar_variants, response, myvariants_variants, variant_dicts_to_store, storeCalled, stored, progress, runs, open_handles>>
    /\ UNCHANGED besidePipeline

\* annotation_project.py:236-238 and 244-245: mv.getvariants returned, and
\* every frame of the function returns in turn
ServiceReturn(j) ==
    /\ pool = "running"
    /\ jobState[j] = "fetching"
    /\ \E variant_data \in ServiceResponses(hgvs_ids_list[j]) :
          /\ response' = [response EXCEPT ![j] = variant_data]
          /\ myvariants_variants' = [myvariants_variants EXCEPT ![j] = ReturnThroughFrames(variant_data, depth[j] + 1)]
    /\ jobState' = [jobState EXCEPT ![j] = "fetched"]
    /\ UNCHANGED <<pc, num_lines, chunk_size, sample_names_list, jobs_params_tuples_list, pool, worker, jobError, depth, hgvs_ids_list, annovar_variants, variant_dicts_to_store, storeCalled, stored, results, progress, runs, open_handles>>
    /\ UNCHANGED besidePipeline

\* annotation_project.py:170-177: the merge, then store_annotations_to_db,
\* which stores the documents or raises
MergeAndStore(j) ==
    /\ pool = "running"
    /\ jobState[j] = "fetched"
    /\ LET to_store == CollectChunk(jobs_params_tuples_list[j], hgvs_ids_list[j], myvariants_variants[j], annovar_variants[j])
       IN IF to_store.error # "none"
          THEN /\ Finish(j, "failed", to_store.error)
               /\ UNCHANGED <<variant_dicts_to_store, storeCalled, stored>>
          ELSE /\ variant_dicts_to_store' = [variant_dicts_to_store EXCEPT ![j] = to_store.dicts]
               /\ storeCalled' = [storeCalled EXCEPT ![j] = TRUE]
               /\ \/ /\ stored' = [stored EXCEPT ![j] = to_store.dicts]
                     /\ Finish(j, "done", "none")
                  \/ /\ UNCHANGED stored
                     /\ Finish(j, "failed", "StoreError")
    /\ UNCHANGED <<pc, num_lines, chunk_size, sample_names_list, jobs_params_tuples_list, pool, depth, hgvs_ids_list, annovar_variants, response, myvariants_variants, progress, runs, open_handles>>
    /\ UNCHANGED besidePipeline

\* mutant: the loop drops the result of a job that raised and goes on
after_result_swallowing(state) == "iterating"

\* annotation_project.py:115-117: where the caller is after taking the result
\* of a job that ended in state: in the loop, or out of it with the exception
after_result(state) == IF state = "done" THEN "iterating" ELSE "raised"

\* annotation_project.py:115-117: the loop over pool.imap_unordered takes the
\* next result; the result of a job that raised is raised again in the caller
NextResult ==
    /\ pc = "iterating"
    /\ results # <<>>
    /\ results' = Tail(results)
    /\ progress' = IF jobState[Head(results)] = "done" THEN progress + 1 ELSE progress
    /\ pc' = after_result(jobState[Head(results)])
    /\ UNCHANGED <<num_lines, chunk_size, sample_names_list, jobs_params_tuples_list, pool, worker, jobState, jobError, depth, hgvs_ids_list, annovar_variants, response, myvariants_variants, variant_dicts_to_store, storeCalled, stored, runs, open_handles>>
    /\ UNCHANGED besidePipeline

\* annotation_project.py:118-121: every result was taken; pool.close(),
\* pool.join() and the return
CloseAndJoin ==
    /\ pc = "iterating"
    /\ progress = Len(jobs_params_tuples_list)
    /\ \A w \in Workers : worker[w] = 0
    /\ pool' = "joined"
    /\ pc' = "returned"
    /\ open_handles' = [j \in Jobs |-> 0]
    /\ UNCHANGED <<num_lines, chunk_size, sample_names_list, jobs_params_tuples_list, worker, jobState, jobError, depth, hgvs_ids_list, annovar_variants, response, myvariants_variants, variant_dicts_to_store, storeCalled, stored, results, progress, runs>>
    /\ UNCHANGED besidePipeline

\* annotation_project.py:114: the exception left _collect_annotations_and_store
\* without close() or join(); the pool is terminated when it is collected or
\* the process exits, and its workers die with the jobs they hold
PoolTerminate ==
    /\ pc = "raised"
    /\ pool = "running"
    /\ pool' = "terminated"
    /\ jobState' = [j \in Jobs |-> IF jobState[j] \in {"done", "failed"} THEN jobState[j] ELSE "terminated"]
    /\ worker' = [w \in Workers |-> 0]
    /\ open_handles' = [j \in Jobs |-> 0]
    /\ UNCHANGED <<pc, num_lines, chunk_size, sample_names_list, jobs_params_tuples_list, jobError, depth, hgvs_ids_list, annovar_variants, response, myvariants_variants, variant_dicts_to_store, storeCalled, stored, results, progress, runs>>
    /\ UNCHANGED besidePipeline

Next ==
    \/ MakeJobs
    \/ \E w \in Workers : StartJob(w)
    \/ \E j \in Jobs : CollectGarbage(j)
    \/ \E j \in Jobs : ServiceFail(j)
    \/ \E j \in Jobs : ServiceReturn(j)
    \/ \E j \in Jobs : MergeAndStore(j)
    \/ NextResult
    \/ CloseAndJoin
    \/ PoolTerminate

Spec == Init /\ [][Next]_vars

\* the most jobs a run has
MaxJobs == MaxLines + 1

\* The pool's processes and the caller are scheduled by the operating system:
\* the caller makes its jobs, a worker that can take a job does, a call of the service returns or raises,
\* a job that holds its records merges and stores them, and the caller's loop
\* takes a result that is there. Nothing says when, or whether, a pool that
\* was left behind is terminated or a reader is collected.
Fairness ==
    /\ WF_vars(MakeJobs)
    /\ \A w \in Workers : WF_vars(StartJob(w))
    /\ \A j \in 1..MaxJobs : WF_vars(j \in Jobs /\ (ServiceFail(j) \/ ServiceReturn(j)))
    /\ \A j \in 1..MaxJobs : WF_vars(j \in Jobs /\ MergeAndStore(j))
    /\ WF_vars(NextResult)
    /\ WF_vars(CloseAndJoin)

FairSpec == Spec /\ Fairness

---------------------------------------------------------------------------
(* The partitioner alone *)

InitJobs ==
    /\ pc = "start"
    /\ num_lines \in 0..MaxPartLines
    /\ chunk_size \in 1..MaxPartChunk
    /\ sample_names_list \in {None, <<"s1">>}
    /\ NoJobsYet
    /\ NoNormalizer
    /\ NoRecord
    /\ NoAnnovar

SpecJobs == InitJobs /\ [][MakeJobs]_vars

---------------------------------------------------------------------------
(* A run whose file fits in one chunk *)

\* chunk sizes of the one-chunk runs
MaxOneChunk == 3

InitChunk ==
    /\ pc = "start"
    /\ chunk_size \in 1..MaxOneChunk
    /\ num_lines \in 0..(chunk_size - 1)
    /\ sample_names_list \in {None, <<"s1">>}
    /\ NoJobsYet
    /\ NoNormalizer
    /\ NoRecord
    /\ NoAnnovar

SpecChunk == InitChunk /\ [][Next]_vars

---------------------------------------------------------------------------
(* The normalizer alone *)

NoPipeline ==
    /\ pc = "idle"
    /\ num_lines = 0
    /\ chunk_size = 1
    /\ sample_names_list = None
    /\ NoJobsYet

InitNorm ==
    /\ NoPipeline
    /\ hgvs_id \in StringsUpTo(MaxIdLen)
    /\ normed = NotYet
    /\ normed_twice = NotYet
    /\ NoRecord
    /\ NoAnnovar

\* a call of _complete_chromosome
Normalize ==
    /\ normed = NotYet
    /\ normed' = _complete_chromosome(hgvs_id)
    /\ UNCHANGED <<hgvs_id, normed_twice>>
    /\ UNCHANGED <<pipelineVars, recordVars, listenVars>>

\* a call of _complete_chromosome on what the first call returned
NormalizeAgain ==
    /\ normed \notin {NotYet, IndexError}
    /\ normed_twice = NotYet
    /\ normed_twice' = _complete_chromosome(normed)
    /\ UNCHANGED <<hgvs_id, normed>>
    /\ UNCHANGED <<pipelineVars, recordVars, listenVars>>

NextNorm == Normalize \/ NormalizeAgain

SpecNorm == InitNorm /\ [][NextNorm]_vars

---------------------------------------------------------------------------
(* The post-processing of one service record alone *)

\* values of the fields of the records given to the post-processing
RecordValues == {<<"1", ":", "1">>, <<"M", ":", "0">>, StrayId}

\* the records: any of the fields '_id', 'query', 'hgvs_id', 'cadd', each with
\* any of the values
ServiceRecords ==
    UNION {[keys -> RecordValues] : keys \in SUBSET {"_id", "query", "hgvs_id", "cadd"}}

InitRecord ==
    /\ NoPipeline
    /\ NoNormalizer
    /\ dic \in ServiceRecords
    /\ cleaned = <<>>
    /\ NoAnnovar

\* annotation_project.py:251-253: the body of the loop of _remove_id_key on dic
RemoveIdKey ==
    /\ cleaned = <<>>
    /\ cleaned' = <<_remove_id_key_one(dic)>>
    /\ UNCHANGED dic
    /\ UNCHANGED <<pipelineVars, normVars, listenVars>>

SpecRecord == InitRecord /\ [][RemoveIdKey]_vars

---------------------------------------------------------------------------
(* run_annovar and its output poller, annovar.py *)

\* annovar.py:81
chunks == (len_mapping \div batch_jobs) + 1
\* annovar.py:82: n_job_splits[i], with i counted from 0
n_job_splits(i) == <<i * batch_jobs, (i + 1) * batch_jobs>>
\* annovar.py:109: the n_files argument of the running call of listen
n_files == n_job_splits(batch_index)[2]
\* annovar.py:87-104: the files an ANNOVAR process was started for so far,
\* len(self.mapping[0:job[1]]) once the batch is submitted
submitted ==
    IF lpc \in {"idle", "submit"} THEN Min({n_job_splits(batch_index)[1], len_mapping})
    ELSE Min({n_job_splits(batch_index)[2], len_mapping})

InitListen ==
    /\ NoPipeline
    /\ NoNormalizer
    /\ NoRecord
    /\ len_mapping \in 0..MaxFiles
    /\ batch_jobs \in 1..MaxBatchJobs
    /\ batch_index = 0
    /\ lpc = "submit"
    /\ added = 0
    /\ txts = 0
    /\ out_path \in 0..MaxStaleFiles
    /\ created = 0

\* annovar.py:85-109 and 187: the processes of the batch are started and
\* listen is called
Submit ==
    /\ lpc = "submit"
    /\ lpc' = "scan"
    /\ added' = 0
    /\ UNCHANGED <<len_mapping, batch_jobs, batch_index, txts, out_path, created>>
    /\ UNCHANGED <<pipelineVars, normVars, recordVars>>

\* an ANNOVAR process that was started writes its output file
CreateFile ==
    /\ lpc # "idle"
    /\ created < submitted
    /\ created' = created + 1
    /\ out_path' = out_path + 1
    /\ UNCHANGED <<len_mapping, batch_jobs, batch_index, lpc, added, txts>>
    /\ UNCHANGED <<pipelineVars, normVars, recordVars>>

\* annovar.py:190-195: the walk before the sleep
Scan ==
    /\ lpc = "scan"
    /\ txts' = out_path
    /\ lpc' = "sleep"
    /\ UNCHANGED <<len_mapping, batch_jobs, batch_index, added, out_path, created>>
    /\ UNCHANGED <<pipelineVars, normVars, recordVars>>

\* annovar.py:197-217: the sleep is over; the second walk, the count of polls
\* that saw a new file, and the two tests that leave the loop; when listen
\* returns, run_annovar goes to its next batch (annovar.py:85, 110-112)
Wake ==
    /\ lpc = "sleep"
    /\ LET new_files == out_path
           newly_created == new_files - txts
           now_added == IF newly_created > 0 THEN added + 1 ELSE added
       IN /\ added' = now_added
          /\ IF now_added = batch_jobs \/ txts >= n_files
             THEN /\ batch_index' = batch_index + 1
                  /\ lpc' = IF batch_index + 1 < chunks THEN "submit" ELSE "finished"
             ELSE /\ batch_index' = batch_index
                  /\ lpc' = "scan"
    /\ UNCHANGED <<len_mapping, batch_jobs, txts, out_path, created>>
    /\ UNCHANGED <<pipelineVars, normVars, recordVars>>

NextListen == Submit \/ CreateFile \/ Scan \/ Wake

SpecListen == InitListen /\ [][NextListen]_vars

\* run_annovar goes on, and time.sleep(5) and the walks of listen return; when
\* an ANNOVAR process writes its file is up to that process
FairSpecListen == SpecListen /\ WF_vars(Submit) /\ WF_vars(Scan) /\ WF_vars(Wake)

---------------------------------------------------------------------------
(* The normalizer's claims (SpecNorm) *)

\* what the normalizer is specified to return
ChromosomeToken(id) == Split(id, ":")[1]
AfterChromosome(id) == SubSeq(id, Len(ChromosomeToken(id)) + 1, Len(id))
NormalizedAsSpecified(id) ==
    IF Contains(ChromosomeToken(id), <<"M">>) /\ ~Contains(ChromosomeToken(id), <<"M", "T">>)
    THEN chrMT \o AfterChromosome(id)
    ELSE id

\* C6: _complete_chromosome returns the identifier with the chromosome token
\* replaced by 'chrMT' exactly when that token holds 'M' and not 'MT', and
\* otherwise returns it unchanged; what follows the token is always kept.
C6_NormalizerAsSpecified ==
    normed # NotYet => normed = NormalizedAsSpecified(hgvs_id)

\* C7: normalizing the result of a normalization returns it unchanged.
C7_NormalizationIdempotent ==
    normed_twice # NotYet => normed_twice = normed
C7_Witness ==
    /\ normed_twice # NotYet
    /\ normed # hgvs_id
    /\ normed_twice = normed

---------------------------------------------------------------------------
(* The partitioner's claims (SpecJobs) *)

\* the half-open line range [first, last) of a job
RangeStart(job_params_tuple) ==
    Param(job_params_tuple, CHUNK_INDEX_INDEX) * Param(job_params_tuple, CHUNK_SIZE_INDEX)
RangeEnd(job_params_tuple) ==
    (Param(job_params_tuple, CHUNK_INDEX_INDEX) + 1) * Param(job_params_tuple, CHUNK_SIZE_INDEX)

\* ceil(a / b)
CeilDiv(a, b) == (a + b - 1) \div b

\* C1: the partitioner makes floor(totalLines/chunkSize) + 1 jobs with chunk
\* indices 0, 1, ... in order; their line ranges start at 0, each begins where
\* the one before ends, and every line of the file is in exactly one of them.
C1_PartitionCoverage ==
    pc # "start" =>
        /\ Len(jobs_params_tuples_list) = (num_lines \div chunk_size) + 1
        /\ \A k \in Jobs : Param(jobs_params_tuples_list[k], CHUNK_INDEX_INDEX) = k - 1
        /\ RangeStart(jobs_params_tuples_list[1]) = 0
        /\ \A k \in Jobs \ {1} :
              RangeStart(jobs_params_tuples_list[k]) = RangeEnd(jobs_params_tuples_list[k - 1])
        /\ \A line \in 0..(num_lines - 1) :
              Cardinality({k \in Jobs : /\ RangeStart(jobs_params_tuples_list[k]) <= line
                                        /\ line < RangeEnd(jobs_params_tuples_list[k])}) = 1
C1_Witness ==
    /\ pc # "start"
    /\ num_lines = 5
    /\ chunk_size = 2
    /\ Len(jobs_params_tuples_list) = 3
    /\ RangeEnd(jobs_params_tuples_list[3]) = 6

\* C2: the partitioner makes ceil(totalLines / chunkSize) jobs, so that no job
\* has a line range holding no line of the file.
C2_CeilingJobCount ==
    pc # "start" =>
        /\ Len(jobs_params_tuples_list) = CeilDiv(num_lines, chunk_size)
        /\ \A k \in Jobs : RangeStart(jobs_params_tuples_list[k]) < num_lines

---------------------------------------------------------------------------
(* The claims about one chunk's job (SpecChunk) *)

Ended(j) == jobState[j] \in {"done", "failed"}
MergeMode(j) == merge_variants(jobs_params_tuples_list[j])
\* _get_myvariantinfo_annotations_dict returned to the job
ClientReturned(j) == jobState[j] = "fetched" \/ (Ended(j) /\ jobError[j] # "RecursionError")

\* the remote and the local list are aligned: same length, same identifier at
\* every index
Aligned(j) ==
    /\ Len(myvariants_variants[j]) = Len(annovar_variants[j])
    /\ \A i \in 1..Len(annovar_variants[j]) :
          myvariants_variants[j][i]["hgvs_id"] = annovar_variants[j][i]["hgvs_id"]

\* the identifiers of the two lists differ at some index both lists have
MismatchAt(j, i) ==
    /\ i \in 1..Min({Len(myvariants_variants[j]), Len(annovar_variants[j])})
    /\ myvariants_variants[j][i]["hgvs_id"] # annovar_variants[j][i]["hgvs_id"]

\* C3: for aligned remote and local lists of length k the merge makes a list of
\* length k whose i-th document has every field of local[i] and every field of
\* remote[i], with remote[i]'s value for the keys both have.
C3_MergeCorrect ==
    \A j \in Jobs :
        (MergeMode(j) /\ Ended(j) /\ ClientReturned(j) /\ Aligned(j)) =>
            /\ storeCalled[j]
            /\ Len(variant_dicts_to_store[j]) = Len(annovar_variants[j])
            /\ \A i \in 1..Len(annovar_variants[j]) :
                  LET merged == variant_dicts_to_store[j][i]
                      local == annovar_variants[j][i]
                      remote == myvariants_variants[j][i]
                  IN /\ DOMAIN merged = DOMAIN local \cup DOMAIN remote
                     /\ \A key \in DOMAIN remote : merged[key] = remote[key]
                     /\ \A key \in DOMAIN local \ DOMAIN remote : merged[key] = local[key]
C3_Witness ==
    \E j \in Jobs :
        /\ MergeMode(j) /\ Ended(j) /\ Aligned(j)
        /\ Len(variant_dicts_to_store[j]) = 2
        /\ annovar_variants[j][2]["cadd"] # myvariants_variants[j][2]["cadd"]
        /\ variant_dicts_to_store[j][2]["cadd"] = myvariants_variants[j][2]["cadd"]
        /\ "samples" \in DOMAIN variant_dicts_to_store[j][2]

\* C4: in merge mode, when the local and the remote identifier differ at some
\* index, the job fails with the identifier-mismatch error (ValueError) and the
\* store is never called for the chunk: none of its documents is written.
C4_MismatchStoresNothing ==
    \A j \in Jobs :
        (MergeMode(j) /\ Ended(j) /\ \E i \in 1..Len(annovar_variants[j]) : MismatchAt(j, i)) =>
            /\ jobState[j] = "failed"
            /\ jobError[j] = "ValueError"
            /\ ~storeCalled[j]
            /\ stored[j] = <<>>
C4_Witness ==
    \E j \in Jobs :
        /\ MergeMode(j) /\ Ended(j)
        /\ ~MismatchAt(j, 1)
        /\ MismatchAt(j, 2)
        /\ jobError[j] = "ValueError"
        /\ stored[j] = <<>>

\* C5: every record the remote annotation client returns, after a first
\* attempt that succeeded or after failed attempts, has neither '_id' nor
\* 'query' and has an 'hgvs_id' equal to the identifier it was queried with.
C5_RemoteRecordHygiene ==
    \A j \in Jobs :
        ClientReturned(j) =>
            /\ Len(myvariants_variants[j]) = Len(response[j])
            /\ \A i \in 1..Len(response[j]) :
                  /\ "_id" \notin DOMAIN myvariants_variants[j][i]
                  /\ "query" \notin DOMAIN myvariants_variants[j][i]
                  /\ "hgvs_id" \in DOMAIN myvariants_variants[j][i]
                  /\ myvariants_variants[j][i]["hgvs_id"] = response[j][i]["query"]

\* C8: in merge mode, when the remote and the local list differ in length, the
\* job fails and nothing is stored for the chunk.
C8_LengthMismatchFails ==
    \A j \in Jobs :
        (MergeMode(j) /\ Ended(j) /\ ClientReturned(j)
            /\ Len(myvariants_variants[j]) # Len(annovar_variants[j])) =>
            /\ jobState[j] = "failed"
            /\ ~storeCalled[j]
            /\ stored[j] = <<>>

\* C10: a failed call of the remote service is never surfaced by the remote
\* annotation client as a failure of its own, after any number of consecutive
\* failed calls.
C10_ServiceFailureNeverTerminal ==
    \A j \in Jobs : jobError[j] # "RecursionError"

\* C17: for the same identifier list and the same successful service response,
\* what the remote annotation client returns after k >= 1 failed attempts is
\* equal, record by record and field by field, to what it returns when the
\* first attempt succeeds, which is the response passed once through
\* _remove_id_key.
C17_RetryTransparent ==
    \A j \in Jobs :
        (ClientReturned(j) /\ depth[j] >= 1) =>
            myvariants_variants[j] = _remove_id_key(response[j])

---------------------------------------------------------------------------
(* The claims about the pool (Spec) *)

\* C9: the caller of _collect_annotations_and_store regains control, by a
\* return or by an exception, only when every job has completed or failed
\* (stated for the runs in which no job ended in the client's RecursionError,
\* so that what refutes it is the pool call alone).
C9_PoolCallIsBarrier ==
    (pc \in {"returned", "raised"} /\ \A j \in Jobs : jobError[j] # "RecursionError") =>
        \A j \in Jobs : Ended(j)

---------------------------------------------------------------------------
(* The claims about the post-processing of a service record (SpecRecord) *)

\* C18: the post-processing of one record removes '_id' and 'query', and when
\* the record has both, the resulting hgvs_id is the value of its 'query',
\* whatever the value of '_id' (the write from 'query' comes second and wins).
C18_SecondWriteWins ==
    cleaned # <<>> =>
        /\ "_id" \notin DOMAIN cleaned[1]
        /\ "query" \notin DOMAIN cleaned[1]
        /\ "hgvs_id" \in DOMAIN cleaned[1]
        /\ ("_id" \in DOMAIN dic /\ "query" \in DOMAIN dic) => cleaned[1]["hgvs_id"] = dic["query"]
C18_Witness ==
    /\ cleaned # <<>>
    /\ "_id" \in DOMAIN dic
    /\ "query" \in DOMAIN dic
    /\ dic["_id"] # dic["query"]
    /\ cleaned[1]["hgvs_id"] = dic["query"]

---------------------------------------------------------------------------
(* The claims about the pool, continued (Spec) *)

\* the job's descriptor carries a sample-name list
CarriesSampleList(j) == Len(jobs_params_tuples_list[j]) > SAMPLE_LIST_INDEX
\* a worker took the job
Started(j) == runs[j] >= 1

\* C16: a job descriptor carries a sample-name list exactly in detailed (merge)
\* mode; a worker parses the local records of the chunk and stores the merged
\* documents exactly when its descriptor carries the list, and otherwise
\* stores the bare remote records; the descriptors of a run agree on this and
\* on every field but the chunk index.
C16_ModeByDescriptor ==
    pc # "start" =>
        /\ \A j \in Jobs :
              /\ CarriesSampleList(j) <=> sample_names_list # None
              /\ CarriesSampleList(j) => Param(jobs_params_tuples_list[j], SAMPLE_LIST_INDEX) = sample_names_list
        /\ \A j, k \in Jobs :
              /\ Len(jobs_params_tuples_list[j]) = Len(jobs_params_tuples_list[k])
              /\ \A index \in 1..(Len(jobs_params_tuples_list[j]) - 1) :
                    index # CHUNK_INDEX_INDEX =>
                        Param(jobs_params_tuples_list[j], index) = Param(jobs_params_tuples_list[k], index)
        /\ \A j \in Jobs :
              Started(j) =>
                  IF CarriesSampleList(j)
                  THEN /\ Len(annovar_variants[j]) = Len(hgvs_ids_list[j])
                       /\ storeCalled[j] =>
                             /\ Len(variant_dicts_to_store[j]) = Len(annovar_variants[j])
                             /\ \A i \in 1..Len(annovar_variants[j]) :
                                   /\ "samples" \in DOMAIN variant_dicts_to_store[j][i]
                                   /\ variant_dicts_to_store[j][i]["samples"] = sample_names_list
                  ELSE /\ annovar_variants[j] = <<>>
                       /\ storeCalled[j] => variant_dicts_to_store[j] = myvariants_variants[j]
C16_Witness ==
    /\ sample_names_list # None
    /\ Len(jobs_params_tuples_list) >= 2
    /\ CarriesSampleList(1) /\ CarriesSampleList(2)
    /\ jobState[1] = "done" /\ jobState[2] = "done"
    /\ Len(stored[1]) >= 1
    /\ "samples" \in DOMAIN stored[1][1]

\* the service answered the job's only attempt with one record per identifier
NoFailureIn(j) ==
    /\ jobState[j] = "done"
    /\ depth[j] = 0
    /\ response[j] = [k \in 1..Len(hgvs_ids_list[j]) |-> ServiceRecord(hgvs_ids_list[j][k])]

\* the identifiers of the documents the store holds for the jobs 1..n, in job order
RECURSIVE StoredIds(_)
StoredIds(n) ==
    IF n = 0 THEN <<>>
    ELSE StoredIds(n - 1) \o [i \in 1..Len(stored[n]) |-> stored[n][i]["hgvs_id"]]

\* the identifier of every line of the source file, in line order
LineIds == [k \in 1..num_lines |-> _complete_chromosome(format_hgvs(k - 1))]

C12_EachJobOnce ==
    /\ \A j \in Jobs :
          /\ runs[j] <= 1
          /\ Cardinality({w \in Workers : worker[w] = j}) <= 1
          /\ jobState[j] \in {"fetching", "fetched", "done", "failed"} => runs[j] = 1
    /\ pc = "returned" => \A j \in Jobs : runs[j] = 1 /\ jobState[j] = "done"
C12_Witness ==
    /\ pc = "returned"
    /\ Len(jobs_params_tuples_list) > NumProcesses
    /\ \A j \in Jobs : runs[j] = 1

\* C14: every file handle a chunk job opened to read its chunk is released by
\* the time the job ends, whether it finished or failed (stated for the jobs
\* that did not end in the client's RecursionError).
C14_HandlesReleased ==
    \A j \in Jobs : (Ended(j) /\ jobError[j] # "RecursionError") => open_handles[j] = 0

---------------------------------------------------------------------------
(* The claims about the pool's progress (FairSpec) *)

\* C15: every run of the pipeline ends in one of two outcomes: every job is
\* reported complete (progress reaches the number of jobs) and the call
\* returns, or the call raises an error; no run stays forever in neither.
C15_RunEnds ==
    <>(\/ pc = "returned" /\ progress = Len(jobs_params_tuples_list)
       \/ pc = "raised")
C15_Witness ==
    /\ pc = "raised"
    /\ progress >= 1
    /\ progress < Len(jobs_params_tuples_list)

\* C13: a worker held by a failing service blocks only its own slot: with two
\* workers or more, when the service fails forever for one job and no other
\* job raises anything, every other job is eventually executed to completion.
C13_OthersStillComplete ==
    \A a \in 1..MaxJobs :
        (/\ [](a \in Jobs => jobState[a] \notin {"fetched", "done"})
         /\ [](\A b \in Jobs \ {a} : jobError[b] = "none"))
            => <>(pc # "start" /\ \A b \in Jobs \ {a} : jobState[b] = "done")

---------------------------------------------------------------------------
(* The claim about the ANNOVAR output poller (FairSpecListen) *)

\* listen is running
Listening == lpc \in {"scan", "sleep"}

\* C19: listen, called by run_annovar for a batch, eventually returns once
\* every output file of the submitted batch has been created, for every number
\* of input files and every timing of the files' creation.
C19_ListenReturns ==
    (Listening /\ created = submitted) ~> ~Listening

=============================================================================
